---- MODULE Spec2Model ----
(***************************************************************************)
(* A model of slow-redact (src/index.js): the factory slowRedact, the      *)
(* redaction function redact it returns, and the helpers deepClone,        *)
(* parsePath, getValue, setValue, redactPaths, redactWildcardPath and      *)
(* redactIntermediateWildcard.                                             *)
(*                                                                         *)
(* JavaScript values live in a heap of cells (objects, arrays, dates) so   *)
(* that identity and sharing are observable.  A path string is a sequence  *)
(* of characters; a character is an atom, and a multi-letter atom such as  *)
(* "toString" stands for that run of ordinary characters.                  *)
(***************************************************************************)
EXTENDS Integers, Sequences, FiniteSets, TLC

VARIABLES
  heap,           \* the cells allocated so far
  cfg,            \* the options given to slowRedact
  input,          \* the value given to redact
  snapshot,       \* the structure of input before the call
  pc,             \* "new", "rejected", "ready", "returned", "raised"
  output,         \* what redact returned
  original,       \* the snapshot clone the restore closure holds
  err,            \* the error the factory or redact raised
  calls,          \* the censor invocations of the call, in order
  trace,          \* the record of every path applied by the call
  restored,       \* the values the restore() calls returned
  restoredTrees,  \* the structure of each, as it was returned
  mutations,      \* per write the caller made afterwards, the restore() calls before it
  serialized,     \* the serializer invocations of the call, in order
  results,        \* per call made so far: its input, and what it returned or raised
  parsing         \* a path string given to parsePath, and what each call on it returned

vars == <<heap, cfg, input, snapshot, pc, output, original, err,
          calls, trace, restored, restoredTrees, mutations, serialized, results, parsing>>

----------------------------------------------------------------------------
(* JavaScript values *)

Null == [t |-> "null"]
Undef == [t |-> "undefined"]
Str(s) == [t |-> "string", s |-> s]
Num(s) == [t |-> "number", s |-> s]
Ref(a) == [t |-> "ref", a |-> a]
FnVal(name) == [t |-> "function", name |-> name]

\* typeof v
TypeOf(v) ==
  CASE v.t = "null" -> "object"
    [] v.t = "ref" -> "object"
    [] v.t = "censored" -> "number"
    [] OTHER -> v.t

\* keys are strings, held as sequences of characters
toStringKey == <<"toString">>
lengthKey == <<"length">>
undefinedKey == <<"undefined">>
restoreKey == <<"restore">>

Digit(i) ==
  CASE i = 0 -> "0" [] i = 1 -> "1" [] i = 2 -> "2" [] i = 3 -> "3"
    [] i = 4 -> "4" [] i = 5 -> "5" [] i = 6 -> "6" [] i = 7 -> "7"
    [] i = 8 -> "8" [] i = 9 -> "9" [] OTHER -> "10"

\* i.toString()
IdxKey(i) == <<Digit(i)>>

IsIdxKey(key) == \E i \in 0..9 : key = IdxKey(i)
KeyIdx(key) == CHOOSE i \in 0..9 : key = IdxKey(i)

\* the characters of the string values of the model
StrChars(s) ==
  CASE s = "[REDACTED]" -> <<"[", "R", "E", "D", "A", "C", "T", "E", "D", "]">>
    [] s = "s1" -> <<"s", "1">>
    [] s = "s2" -> <<"s", "2">>
    [] s = "pub" -> <<"p", "u", "b">>
    [] OTHER -> <<s>>

IndexOf(seq, x) ==
  IF \E i \in 1..Len(seq) : seq[i] = x
  THEN CHOOSE i \in 1..Len(seq) : seq[i] = x /\ \A j \in 1..(i - 1) : seq[j] # x
  ELSE 0

----------------------------------------------------------------------------
(* The heap.  A cell is an object, an array or a Date.  keys holds the own *)
(* enumerable keys in enumeration order and vals the values beside them;   *)
(* an array's first len keys are its indices "0".."len-1".                 *)

ObjCell(keys, vals) == [kind |-> "object", keys |-> keys, vals |-> vals, len |-> 0, time |-> 0]
ArrCell(vals) ==
  [kind |-> "array", keys |-> [i \in 1..Len(vals) |-> IdxKey(i - 1)], vals |-> vals,
   len |-> Len(vals), time |-> 0]
DateCell(time) == [kind |-> "date", keys |-> <<>>, vals |-> <<>>, len |-> 0, time |-> time]

IsContainer(v) == v.t = "ref"
IsArray(h, v) == v.t = "ref" /\ h[v.a].kind = "array"

\* Object.prototype.hasOwnProperty.call(v, key), for enumerable keys
HasOwn(h, v, key) == v.t = "ref" /\ IndexOf(h[v.a].keys, key) > 0

\* names found through the prototype chain (Object.prototype.toString) and
\* the array's own non-enumerable length
Inherited(cell, key) ==
  \/ key = toStringKey
  \/ cell.kind = "array" /\ key = lengthKey

\* key in v, for an object v
HasProperty(h, v, key) ==
  v.t = "ref" /\ (IndexOf(h[v.a].keys, key) > 0 \/ Inherited(h[v.a], key))

\* v[key], for v neither null nor undefined
Get(h, v, key) ==
  CASE v.t = "ref" ->
         LET cell == h[v.a]
             i == IndexOf(cell.keys, key)
         IN  IF i > 0 THEN cell.vals[i]
             ELSE IF key = toStringKey THEN FnVal("toString")
             ELSE IF cell.kind = "array" /\ key = lengthKey THEN Num(Digit(cell.len))
             ELSE Undef
    [] v.t = "string" ->
         LET cs == StrChars(v.s)
         IN  IF key = lengthKey THEN Num(Digit(Len(cs)))
             ELSE IF IsIdxKey(key) /\ KeyIdx(key) < Len(cs) THEN Str(cs[KeyIdx(key) + 1])
             ELSE IF key = toStringKey THEN FnVal("toString")
             ELSE Undef
    [] v.t = "function" ->
         IF key = toStringKey THEN FnVal("toString")
         ELSE IF key = lengthKey THEN Num("0")
         ELSE Undef
    [] OTHER -> IF key = toStringKey THEN FnVal("toString") ELSE Undef

\* h[a][key] = value, for an object at a.  Assigning a value that is no
\* array length to an array's length raises a RangeError; assigning a name
\* that is not an own key creates it.
Put(h, a, key, value) ==
  LET cell == h[a]
      i == IndexOf(cell.keys, key)
  IN  IF i > 0
      THEN [heap |-> [h EXCEPT ![a].vals[i] = value], err |-> "none"]
      ELSE IF cell.kind = "array" /\ key = lengthKey
      THEN [heap |-> h, err |-> "RangeError"]
      ELSE [heap |-> [h EXCEPT ![a].keys = Append(@, key), ![a].vals = Append(@, value)],
            err |-> "none"]

\* the structure below v, without identities: what deep equality compares
RECURSIVE Tree(_, _)
Tree(h, v) ==
  IF v.t = "ref"
  THEN LET cell == h[v.a]
       IN  [t |-> cell.kind, keys |-> cell.keys,
            vals |-> [i \in 1..Len(cell.vals) |-> Tree(h, cell.vals[i])],
            len |-> cell.len, time |-> cell.time]
  ELSE v

\* the addresses of the cells reachable from v
RECURSIVE Reach(_, _)
Reach(h, v) ==
  IF v.t = "ref"
  THEN {v.a} \cup UNION {Reach(h, h[v.a].vals[i]) : i \in 1..Len(h[v.a].vals)}
  ELSE {}

----------------------------------------------------------------------------
(* deepClone *)

\* a clone of the top level only: the cells below are shared with obj
deepCloneShallow(h, obj) ==
  IF obj.t # "ref" THEN [heap |-> h, val |-> obj]
  ELSE [heap |-> Append(h, h[obj.a]), val |-> Ref(Len(h) + 1)]

RECURSIVE deepClone(_, _)
RECURSIVE cloneItems(_, _, _, _)

\* the clones of vals[i..], made left to right
cloneItems(h, vals, i, acc) ==
  IF i > Len(vals) THEN [heap |-> h, vals |-> acc]
  ELSE LET c == deepClone(h, vals[i])
       IN  cloneItems(c.heap, vals, i + 1, Append(acc, c.val))

\* deepClone without the array branch of lines 10-12: an array is returned
\* as it is
deepCloneSameArray(h, obj) ==
  IF obj.t # "ref" THEN [heap |-> h, val |-> obj]
  ELSE LET cell == h[obj.a]
       IN  IF cell.kind = "date"
           THEN [heap |-> Append(h, DateCell(cell.time)), val |-> Ref(Len(h) + 1)]
           ELSE IF cell.kind = "array"
           THEN [heap |-> h, val |-> obj]
           ELSE LET c == cloneItems(h, cell.vals, 1, <<>>)
                IN  [heap |-> Append(c.heap, ObjCell(cell.keys, c.vals)),
                     val |-> Ref(Len(c.heap) + 1)]

deepClone(h, obj) ==
  IF obj.t # "ref" THEN [heap |-> h, val |-> obj]
  ELSE LET cell == h[obj.a]
       IN  IF cell.kind = "date"
           THEN [heap |-> Append(h, DateCell(cell.time)), val |-> Ref(Len(h) + 1)]
           ELSE IF cell.kind = "array"
           THEN LET c == cloneItems(h, SubSeq(cell.vals, 1, cell.len), 1, <<>>)
                IN  [heap |-> Append(c.heap, ArrCell(c.vals)), val |-> Ref(Len(c.heap) + 1)]
           ELSE LET c == cloneItems(h, cell.vals, 1, <<>>)
                IN  [heap |-> Append(c.heap, ObjCell(cell.keys, c.vals)),
                     val |-> Ref(Len(c.heap) + 1)]

----------------------------------------------------------------------------
(* parsePath *)

\* parseChar without the quote branch of lines 54-63: a quote character is
\* kept as a character of the segment
parseCharQuotesKept(ps, char) ==
  IF ~ps.inBrackets /\ char = "."
  THEN IF ps.current # <<>>
       THEN [ps EXCEPT !.parts = Append(@, ps.current), !.current = <<>>]
       ELSE ps
  ELSE IF char = "["
  THEN IF ps.current # <<>>
       THEN [ps EXCEPT !.parts = Append(@, ps.current), !.current = <<>>, !.inBrackets = TRUE]
       ELSE [ps EXCEPT !.inBrackets = TRUE]
  ELSE IF char = "]" /\ ps.inBrackets
  THEN IF ps.current # <<>>
       THEN [ps EXCEPT !.parts = Append(@, ps.current), !.current = <<>>,
                       !.inBrackets = FALSE, !.inQuotes = FALSE]
       ELSE [ps EXCEPT !.inBrackets = FALSE, !.inQuotes = FALSE]
  ELSE [ps EXCEPT !.current = Append(@, char)]

\* one character of the scan: ps is [parts, current, inBrackets, inQuotes, quoteChar]
parseChar(ps, char) ==
  IF ~ps.inBrackets /\ char = "."
  THEN IF ps.current # <<>>
       THEN [ps EXCEPT !.parts = Append(@, ps.current), !.current = <<>>]
       ELSE ps
  ELSE IF char = "["
  THEN IF ps.current # <<>>
       THEN [ps EXCEPT !.parts = Append(@, ps.current), !.current = <<>>, !.inBrackets = TRUE]
       ELSE [ps EXCEPT !.inBrackets = TRUE]
  ELSE IF char = "]" /\ ps.inBrackets
  THEN IF ps.current # <<>>
       THEN [ps EXCEPT !.parts = Append(@, ps.current), !.current = <<>>,
                       !.inBrackets = FALSE, !.inQuotes = FALSE]
       ELSE [ps EXCEPT !.inBrackets = FALSE, !.inQuotes = FALSE]
  ELSE IF (char = "\"" \/ char = "'") /\ ps.inBrackets
  THEN IF ~ps.inQuotes
       THEN [ps EXCEPT !.inQuotes = TRUE, !.quoteChar = char]
       ELSE IF char = ps.quoteChar
       THEN [ps EXCEPT !.inQuotes = FALSE, !.quoteChar = ""]
       ELSE [ps EXCEPT !.current = Append(@, char)]
  ELSE [ps EXCEPT !.current = Append(@, char)]

RECURSIVE parseFrom(_, _, _)
parseFrom(ps, chars, i) ==
  IF i > Len(chars) THEN ps ELSE parseFrom(parseChar(ps, chars[i]), chars, i + 1)

\* parsePath(path) for a string path
parsePath(chars) ==
  LET ps == parseFrom([parts |-> <<>>, current |-> <<>>, inBrackets |-> FALSE,
                       inQuotes |-> FALSE, quoteChar |-> ""], chars, 1)
  IN  IF ps.current # <<>> THEN Append(ps.parts, ps.current) ELSE ps.parts

----------------------------------------------------------------------------
(* The state of one run of redact: the heap, the censor invocations so far *)
(* and the error raised, "none" while none has been.                       *)

Raise(st, e) == [st EXCEPT !.err = e]

\* a string, as the path argument of the censor and as an entry of paths
PathStr(chars) == [str |-> TRUE, chars |-> chars]
\* an entry of paths that is no string: 123, null, undefined
NonStr(v) == [str |-> FALSE, v |-> v]

\* what the model's censor function returns: a primitive that carries both
\* arguments, so that two invocations return the same value only when their
\* arguments are equal
CensorFn(valueTree, path) == [t |-> "censored", arg |-> valueTree, path |-> path]

literalCensor == Str("[REDACTED]")

\* typeof censor === 'function' ? censor(value, path) : censor
actualCensor(st, censorIsFn, value, path) ==
  IF censorIsFn
  THEN LET arg == Tree(st.heap, value)
       IN  [st |-> [st EXCEPT !.calls = Append(@, [value |-> arg, path |-> path])],
            val |-> CensorFn(arg, path)]
  ELSE [st |-> st, val |-> literalCensor]

----------------------------------------------------------------------------
(* getValue, setValue *)

RECURSIVE getFrom(_, _, _, _)
getFrom(h, current, parts, i) ==
  IF i > Len(parts) THEN current
  ELSE IF current.t = "null" \/ current.t = "undefined" THEN Undef
  ELSE getFrom(h, Get(h, current, parts[i]), parts, i + 1)

getValue(h, obj, parts) == getFrom(h, obj, parts, 1)

\* the `in` operator raises a TypeError on a right operand that is no object
CanUseIn(v) == v.t = "ref" \/ v.t = "function"

InOp(h, v, key) ==
  IF v.t = "ref" THEN HasProperty(h, v, key)
  ELSE key = toStringKey \/ key = lengthKey

\* current[key] = value
Assign(st, current, key, value) ==
  IF current.t = "ref"
  THEN LET r == Put(st.heap, current.a, key, value)
       IN  IF r.err # "none" THEN Raise(st, r.err) ELSE [st EXCEPT !.heap = r.heap]
  ELSE st

\* for (i...) current[i] = value / for (key in current) current[key] = value
RECURSIVE assignAll(_, _, _, _)
assignAll(st, current, keys, value) ==
  IF keys = <<>> THEN st
  ELSE assignAll(Assign(st, current, Head(keys), value), current, Tail(keys), value)

\* the keys a loop over current enumerates: the indices of an array, the own
\* enumerable keys of another object
LoopKeys(h, current) ==
  IF IsArray(h, current) THEN SubSeq(h[current.a].keys, 1, h[current.a].len)
  ELSE IF current.t = "ref" THEN h[current.a].keys
  ELSE <<>>

\* lines 91-107: the last segment
setLast(st, current, parts, value) ==
  LET lastKey == IF parts = <<>> THEN undefinedKey ELSE parts[Len(parts)]
  IN  IF lastKey = <<"*">>
      THEN assignAll(st, current, LoopKeys(st.heap, current), value)
      ELSE IF ~CanUseIn(current) THEN Raise(st, "TypeError")
      ELSE IF InOp(st.heap, current, lastKey) THEN Assign(st, current, lastKey, value)
      ELSE st

\* lines 80-89: the segments before the last, from segment i
RECURSIVE setFrom(_, _, _, _, _)
setFrom(st, current, parts, i, value) ==
  IF i > Len(parts) - 1 THEN setLast(st, current, parts, value)
  ELSE LET key == parts[i]
       IN  IF ~CanUseIn(current) THEN Raise(st, "TypeError")
           ELSE IF ~InOp(st.heap, current, key) THEN st
           ELSE LET next == Get(st.heap, current, key)
                IN  IF TypeOf(next) # "object" \/ next.t = "null" THEN st
                    ELSE setFrom(st, next, parts, i + 1, value)

setValue(st, obj, parts, value) == setFrom(st, obj, parts, 1, value)

----------------------------------------------------------------------------
(* redactWildcardPath, redactIntermediateWildcard *)

star == <<"*">>

\* originalPath.replace('*', key): the first "*" of the string gives way to key
Replace(chars, key) ==
  LET i == IndexOf(chars, "*")
  IN  IF i = 0 THEN chars
      ELSE SubSeq(chars, 1, i - 1) \o key \o SubSeq(chars, i + 1, Len(chars))

\* parts.join('.')
RECURSIVE JoinDot(_)
JoinDot(parts) ==
  IF parts = <<>> THEN <<>>
  ELSE IF Len(parts) = 1 THEN parts[1]
  ELSE parts[1] \o <<".">> \o JoinDot(Tail(parts))

\* censorEach with the loop bound one short: the last index or key is left
RECURSIVE censorEachButLast(_, _, _, _, _)
censorEachButLast(st, current, keys, censorIsFn, originalPath) ==
  IF Len(keys) <= 1 \/ st.err # "none" THEN st
  ELSE LET key == Head(keys)
           c == actualCensor(st, censorIsFn, Get(st.heap, current, key),
                             PathStr(Replace(originalPath.chars, key)))
       IN  censorEachButLast(Assign(c.st, current, key, c.val), current,
                             Tail(keys), censorIsFn, originalPath)

\* lines 150-164: every index or own key of current is censored in turn
RECURSIVE censorEach(_, _, _, _, _)
censorEach(st, current, keys, censorIsFn, originalPath) ==
  IF keys = <<>> \/ st.err # "none" THEN st
  ELSE LET key == Head(keys)
           c == actualCensor(st, censorIsFn, Get(st.heap, current, key),
                             PathStr(Replace(originalPath.chars, key)))
       IN  censorEach(Assign(c.st, current, key, c.val), current, Tail(keys),
                      censorIsFn, originalPath)

\* lines 174-196; w is [before, after, censorIsFn]
RECURSIVE traverse(_, _, _, _)
RECURSIVE traverseEach(_, _, _, _, _)

traverseEach(st, current, keys, pathSoFar, w) ==
  IF keys = <<>> \/ st.err # "none" THEN st
  ELSE traverseEach(traverse(st, Get(st.heap, current, Head(keys)),
                             Append(pathSoFar, Head(keys)), w),
                    current, Tail(keys), pathSoFar, w)

traverse(st, current, pathSoFar, w) ==
  IF Len(pathSoFar) = Len(w.before)
  THEN traverseEach(st, current, LoopKeys(st.heap, current), pathSoFar, w)
  ELSE IF Len(pathSoFar) < Len(w.before)
  THEN LET nextKey == w.before[Len(pathSoFar) + 1]
       IN  IF current.t = "ref" /\ HasProperty(st.heap, current, nextKey)
           THEN traverse(st, Get(st.heap, current, nextKey), Append(pathSoFar, nextKey), w)
           ELSE st
  ELSE LET c == actualCensor(st, w.censorIsFn, getValue(st.heap, current, w.after),
                             PathStr(JoinDot(pathSoFar) \o <<".">> \o JoinDot(w.after)))
       IN  setValue(c.st, current, w.after, c.val)

redactIntermediateWildcard(st, obj, parts, censorIsFn, wildcardIndex, originalPath) ==
  LET w == [before |-> SubSeq(parts, 1, wildcardIndex - 1),
            after |-> SubSeq(parts, wildcardIndex + 1, Len(parts)),
            censorIsFn |-> censorIsFn]
  IN  IF w.before = <<>> THEN traverse(st, obj, <<>>, w)
      ELSE LET current == getValue(st.heap, obj, w.before)
           IN  IF current.t # "null" /\ current.t # "undefined"
               THEN traverse(st, current, w.before, w)
               ELSE st

redactWildcardPath(st, obj, parts, censorIsFn, originalPath) ==
  LET wildcardIndex == IndexOf(parts, star)
  IN  IF wildcardIndex = Len(parts)
      THEN LET current == getValue(st.heap, obj, SubSeq(parts, 1, Len(parts) - 1))
           IN  censorEach(st, current, LoopKeys(st.heap, current), censorIsFn, originalPath)
      ELSE redactIntermediateWildcard(st, obj, parts, censorIsFn, wildcardIndex, originalPath)

----------------------------------------------------------------------------
(* redactPaths *)

\* parsePath(path) for any entry of paths: a number has no length and gives
\* no segment; null and undefined raise a TypeError
parseEntry(path) ==
  IF path.str THEN [err |-> "none", parts |-> parsePath(path.chars)]
  ELSE IF path.v = "123" THEN [err |-> "none", parts |-> <<>>]
  ELSE [err |-> "TypeError", parts |-> <<>>]

\* redactPath handing the censor the parsed path joined with dots in the
\* place of the configured string
redactPathNormalised(st, obj, path, censorIsFn) ==
  LET p == parseEntry(path)
  IN  IF p.err # "none" THEN Raise(st, p.err)
      ELSE IF IndexOf(p.parts, star) > 0
      THEN redactWildcardPath(st, obj, p.parts, censorIsFn, path)
      ELSE LET c == actualCensor(st, censorIsFn, getValue(st.heap, obj, p.parts),
                                 PathStr(JoinDot(p.parts)))
           IN  setValue(c.st, obj, p.parts, c.val)

\* lines 125-134: one path applied to the working copy
redactPath(st, obj, path, censorIsFn) ==
  LET p == parseEntry(path)
  IN  IF p.err # "none" THEN Raise(st, p.err)
      ELSE IF IndexOf(p.parts, star) > 0
      THEN redactWildcardPath(st, obj, p.parts, censorIsFn, path)
      ELSE LET c == actualCensor(st, censorIsFn, getValue(st.heap, obj, p.parts), path)
           IN  setValue(c.st, obj, p.parts, c.val)

\* the record of one application of a path: the working copy before and
\* after it, the censor invocations it made, the error it raised
Step(st0, st1, obj) ==
  [before |-> Tree(st0.heap, obj), after |-> Tree(st1.heap, obj),
   calls |-> SubSeq(st1.calls, Len(st0.calls) + 1, Len(st1.calls)), err |-> st1.err]

\* redactPaths, with the record of every path applied; run is [st, steps]
RECURSIVE redactPaths(_, _, _, _, _)
redactPaths(run, obj, paths, i, censorIsFn) ==
  IF i > Len(paths) \/ run.st.err # "none" THEN run
  ELSE LET st1 == redactPath(run.st, obj, paths[i], censorIsFn)
       IN  redactPaths([st |-> st1, steps |-> Append(run.steps, Step(run.st, st1, obj))],
                       obj, paths, i + 1, censorIsFn)

----------------------------------------------------------------------------
(* JSON.stringify and a caller-supplied serialize function *)

\* the JSON document of v: a key whose value is undefined or a function is
\* left out of an object, and such an element of an array becomes null
RECURSIVE JsonOf(_, _)
JsonOf(h, v) ==
  IF v.t = "ref"
  THEN LET cell == h[v.a]
       IN  IF cell.kind = "date" THEN [t |-> "isoString", time |-> cell.time]
           ELSE IF cell.kind = "array"
           THEN [t |-> "array",
                 vals |-> [i \in 1..cell.len |->
                             IF cell.vals[i].t \in {"undefined", "function"} THEN Null
                             ELSE JsonOf(h, cell.vals[i])]]
           ELSE LET kept == SelectSeq([i \in 1..Len(cell.keys) |-> i],
                                      LAMBDA i : cell.vals[i].t \notin {"undefined", "function"})
                IN  [t |-> "object",
                     keys |-> [j \in 1..Len(kept) |-> cell.keys[kept[j]]],
                     vals |-> [j \in 1..Len(kept) |-> JsonOf(h, cell.vals[kept[j]])]]
  ELSE v

\* JSON.stringify(v): a text, or undefined for undefined
stringify(h, v) ==
  IF v.t \in {"undefined", "function"} THEN Undef
  ELSE [t |-> "text", json |-> JsonOf(h, v)]

\* serialize(v) for a function serialize: some function of the structure
customSerialize(h, v) == [t |-> "custom", arg |-> Tree(h, v)]

\* the record of one serializer invocation: which one, and on what
SerCall(fn, h, v) == [fn |-> fn, arg |-> Tree(h, v)]

----------------------------------------------------------------------------
(* slowRedact and redact *)

\* lines 225-232: strict, and obj is null or no object
IsPassthrough(c, obj) == c.strict /\ (obj.t = "null" \/ TypeOf(obj) # "object")

\* serialize ? serialize(obj) : obj
passthrough(h, c, obj) ==
  CASE c.serialize = "false" -> [err |-> "none", val |-> obj, ser |-> <<>>]
    [] c.serialize = "true" -> [err |-> "TypeError", val |-> Undef, ser |-> <<>>]
    [] c.serialize = "function" ->
         [err |-> "none", val |-> customSerialize(h, obj),
          ser |-> <<SerCall("function", h, obj)>>]
    [] OTHER ->
         [err |-> "none", val |-> stringify(h, obj),
          ser |-> <<SerCall("JSON.stringify", h, obj)>>]

\* lines 244-249: cloned.restore = function ...; on null and undefined the
\* assignment raises, on another primitive it is dropped
attachRestore(st, cloned) ==
  IF cloned.t \in {"null", "undefined"} THEN Raise(st, "TypeError")
  ELSE Assign(st, cloned, restoreKey, FnVal("restore"))

\* lines 244-255: what redact returns; run is what redactPaths left
finishRedact(c, cloned, orig, run) ==
  IF run.st.err # "none"
  THEN [st |-> run.st, steps |-> run.steps, original |-> orig, val |-> Undef,
        ser |-> <<>>]
  ELSE IF c.serialize = "false"
  THEN [st |-> attachRestore(run.st, cloned), steps |-> run.steps, original |-> orig,
        val |-> cloned, ser |-> <<>>]
  ELSE IF c.serialize = "function"
  THEN [st |-> run.st, steps |-> run.steps, original |-> orig,
        val |-> customSerialize(run.st.heap, cloned),
        ser |-> <<SerCall("function", run.st.heap, cloned)>>]
  ELSE [st |-> run.st, steps |-> run.steps, original |-> orig,
        val |-> stringify(run.st.heap, cloned),
        ser |-> <<SerCall("JSON.stringify", run.st.heap, cloned)>>]

\* lines 237-242: the paths applied to cloned; c2 is the clone kept as original
redactCloned(c, cloned, c2) ==
  finishRedact(c, cloned, c2.val,
               redactPaths([st |-> [heap |-> c2.heap, calls |-> <<>>, err |-> "none"],
                            steps |-> <<>>], cloned, c.paths, 1, c.censorIsFn))

\* line 235: const original = deepClone(obj); c1 is the clone made as cloned
cloneOriginal(c, obj, c1) == redactCloned(c, c1.val, deepClone(c1.heap, obj))

\* lines 234-255: the full path of redact; the result is
\* [st, steps, original, val, ser]
redactFull(h, c, obj) == cloneOriginal(c, obj, deepClone(h, obj))

----------------------------------------------------------------------------
(* The inputs and the configurations of the model *)

MaxPaths == 2
MaxRestores == 2
MaxMutations == 1
MaxRestorePaths == 1
MaxCalls == 2
MaxCallPaths == 1
MaxOrders == 2

K(c) == <<c>>

\* const x = { b: 's1', c: 'pub' }; { a: x, b: 's2', c: x }
InNested ==
  [heap |-> << ObjCell(<<K("a"), K("b"), K("c")>>, <<Ref(2), Str("s2"), Ref(2)>>),
               ObjCell(<<K("b"), K("c")>>, <<Str("s1"), Str("pub")>>) >>,
   root |-> Ref(1)]

\* { a: [ { b: 's1' }, { b: 's2', c: 'pub' } ] }
InArrayOfObjects ==
  [heap |-> << ObjCell(<<K("a")>>, <<Ref(2)>>),
               ArrCell(<<Ref(3), Ref(4)>>),
               ObjCell(<<K("b")>>, <<Str("s1")>>),
               ObjCell(<<K("b"), K("c")>>, <<Str("s2"), Str("pub")>>) >>,
   root |-> Ref(1)]

\* { a: { b: { b: 's1' }, c: 123 } }
InMixedChildren ==
  [heap |-> << ObjCell(<<K("a")>>, <<Ref(2)>>),
               ObjCell(<<K("b"), K("c")>>, <<Ref(3), Num("123")>>),
               ObjCell(<<K("b")>>, <<Str("s1")>>) >>,
   root |-> Ref(1)]

\* { a: ['s1', 's2'], b: null }
InArrayOfStrings ==
  [heap |-> << ObjCell(<<K("a"), K("b")>>, <<Ref(2), Null>>),
               ArrCell(<<Str("s1"), Str("s2")>>) >>,
   root |-> Ref(1)]

\* [ { b: 's1' }, { c: 'pub' } ]
InArrayRoot ==
  [heap |-> << ArrCell(<<Ref(2), Ref(3)>>),
               ObjCell(<<K("b")>>, <<Str("s1")>>),
               ObjCell(<<K("c")>>, <<Str("pub")>>) >>,
   root |-> Ref(1)]

\* { a: new Date(1), b: { b: 's1' } }
InDate ==
  [heap |-> << ObjCell(<<K("a"), K("b")>>, <<Ref(2), Ref(3)>>),
               DateCell(1),
               ObjCell(<<K("b")>>, <<Str("s1")>>) >>,
   root |-> Ref(1)]

Primitive(v) == [heap |-> <<>>, root |-> v]

ContainerInputs ==
  {InNested, InArrayOfObjects, InMixedChildren, InArrayOfStrings, InArrayRoot, InDate}

PrimitiveInputs ==
  {Primitive(Num("42")), Primitive(Str("s1")), Primitive(Null), Primitive(Undef)}

\* well-formed path strings
ValidPaths ==
  { PathStr(<<"b">>),
    PathStr(<<"a", ".", "b">>),
    PathStr(<<"x", ".", "b">>),
    PathStr(<<"a", ".", "b", ".", "c">>),
    PathStr(<<"toString">>),
    PathStr(<<"a", ".", "length">>),
    PathStr(<<"a", "[", "0", "]", ".", "b">>),
    PathStr(<<"a", "[", "\"", "b", "\"", "]">>),
    PathStr(<<"a", "[", "'", "c", "'", "]">>),
    PathStr(<<"a", ".", "*">>),
    PathStr(<<"*">>),
    PathStr(<<"a", "[", "*", "]", ".", "b">>),
    PathStr(<<"*", ".", "b">>) }

\* entries the path grammar rejects: no string, the empty string,
\* consecutive dots, unmatched or mismatched brackets
InvalidPaths ==
  { NonStr("123"), NonStr("null"), NonStr("undefined"),
    PathStr(<<>>),
    PathStr(<<"a", ".", ".", "b">>),
    PathStr(<<"a", "[", "b">>),
    PathStr(<<"a", "]", "b">>),
    PathStr(<<"a", "[", "b", "[", "c", "]">>) }

\* every sequence of at most MaxPaths well-formed paths
ValidSeqs == UNION {[1..n -> ValidPaths] : n \in 0..MaxPaths}

\* one rejected entry at any place among entries that are well-formed
InvalidSeqs ==
  UNION {{[i \in 1..n |-> IF i = k THEN bad ELSE PathStr(<<"a", ".", "b">>)] :
            bad \in InvalidPaths, k \in 1..n} : n \in 1..MaxPaths}

Serializers == {"default", "true", "false", "function"}

\* the options: pathsIsArray is FALSE for a paths option that is no array
Configs ==
  [paths : ValidSeqs \cup InvalidSeqs, pathsIsArray : {TRUE}, censorIsFn : BOOLEAN,
   serialize : Serializers, strict : BOOLEAN]
  \cup
  [paths : {<<>>}, pathsIsArray : {FALSE}, censorIsFn : BOOLEAN,
   serialize : Serializers, strict : BOOLEAN]

\* the characters path strings are written with
Alphabet == {"a", ".", "[", "]", "\"", "'", "*", "-"}
Quotes == {"\"", "'"}

MaxTextLen == 3
MaxSegs == 2
MaxKeyLen == 2
MaxParses == 2

\* keys and indices without a character of the path syntax, the wildcard,
\* and a key with the wildcard character in it
SimpleKeys == {<<"a">>, <<"b">>, <<"0">>, <<"*">>, <<"a", "*">>}
Notations == {"dot", "bracket", "double", "single"}

\* one segment written in a notation: k or .k, [k], ["k"], ['k']
RenderSeg(key, n, first) ==
  CASE n = "dot" -> IF first THEN key ELSE <<".">> \o key
    [] n = "bracket" -> <<"[">> \o key \o <<"]">>
    [] n = "double" -> <<"[", "\"">> \o key \o <<"\"", "]">>
    [] OTHER -> <<"[", "'">> \o key \o <<"'", "]">>

RECURSIVE RenderFrom(_, _, _)
RenderFrom(segs, ns, j) ==
  IF j > Len(segs) THEN <<>>
  ELSE RenderSeg(segs[j], ns[j], j = 1) \o RenderFrom(segs, ns, j + 1)

\* the path string for the keys segs, the j-th written in notation ns[j]
Render(segs, ns) == RenderFrom(segs, ns, 1)

\* ["k"] or ['k']
QuotedKey(q, k) == <<"[", q>> \o k \o <<q, "]">>

NotParsing == [path |-> <<>>, kind |-> "none", keys |-> <<>>, returned |-> <<>>]

\* the strings parsePath is given: the renderings of every sequence of at
\* most MaxSegs simple keys, every quoted key of at most MaxKeyLen
\* characters, and every text of at most MaxTextLen characters
ParseInputs ==
  UNION {{[path |-> Render(segs, ns), kind |-> "rendered", keys |-> segs, returned |-> <<>>] :
            segs \in [1..n -> SimpleKeys], ns \in [1..n -> Notations]} : n \in 1..MaxSegs}
  \cup
  UNION {{[path |-> QuotedKey(q, k), kind |-> "quoted", keys |-> <<k>>, returned |-> <<>>] :
            k \in UNION {[1..n -> Alphabet \ {q}] : n \in 1..MaxKeyLen}} : q \in Quotes}
  \cup
  {[path |-> t, kind |-> "text", keys |-> <<>>, returned |-> <<>>] :
     t \in UNION {[1..n -> Alphabet] : n \in 0..MaxTextLen}}

MaxCloneDepth == 1

\* the structures of at most d levels of containers: primitives, a Date,
\* objects of the keys a and b and arrays of up to two elements
RECURSIVE ValueTrees(_)
ValueTrees(d) ==
  IF d = 0 THEN {Num("42"), Str("s1"), Null, Undef}
  ELSE LET sub == ValueTrees(d - 1)
       IN  sub
           \cup {[t |-> "date", keys |-> <<>>, vals |-> <<>>, len |-> 0, time |-> 1]}
           \cup UNION {{[t |-> "object", keys |-> SubSeq(<<K("a"), K("b")>>, 1, n),
                          vals |-> vs, len |-> 0, time |-> 0] : vs \in [1..n -> sub]} :
                        n \in 0..2}
           \cup UNION {{[t |-> "array", keys |-> [i \in 1..n |-> IdxKey(i - 1)],
                          vals |-> vs, len |-> n, time |-> 0] : vs \in [1..n -> sub]} :
                        n \in 0..2}

\* the value of structure tr built on the heap h, every container a new cell
RECURSIVE Alloc(_, _)
RECURSIVE allocItems(_, _, _, _)
allocItems(h, trs, i, acc) ==
  IF i > Len(trs) THEN [heap |-> h, vals |-> acc]
  ELSE LET c == Alloc(h, trs[i])
       IN  allocItems(c.heap, trs, i + 1, Append(acc, c.val))

Alloc(h, tr) ==
  IF tr.t \notin {"object", "array", "date"} THEN [heap |-> h, val |-> tr]
  ELSE LET c == allocItems(h, tr.vals, 1, <<>>)
       IN  [heap |-> Append(c.heap, [kind |-> tr.t, keys |-> tr.keys, vals |-> c.vals,
                                     len |-> tr.len, time |-> tr.time]),
            val |-> Ref(Len(c.heap) + 1)]

\* the values deepClone is given
CloneInputs ==
  ContainerInputs
  \cup {[heap |-> Alloc(<<>>, tr).heap, root |-> Alloc(<<>>, tr).val] :
          tr \in ValueTrees(MaxCloneDepth)}

\* the values the later calls on one redaction function are made with
CallInputs == {InNested, InArrayOfObjects, Primitive(Num("42"))}

\* the values redact is called with: every container, and the primitives
\* under the configurations of at most one path
InputsFor(c) ==
  ContainerInputs \cup (IF Len(c.paths) <= 1 THEN PrimitiveInputs ELSE {})

----------------------------------------------------------------------------
(* The state machine *)

\* the state in which nothing has been called
Fresh ==
  /\ heap = <<>>
  /\ input = Undef
  /\ snapshot = Undef
  /\ pc = "new"
  /\ output = Undef
  /\ original = Undef
  /\ err = "none"
  /\ calls = <<>>
  /\ trace = <<>>
  /\ restored = <<>>
  /\ restoredTrees = <<>>
  /\ mutations = <<>>
  /\ serialized = <<>>
  /\ results = <<>>

Init ==
  /\ cfg \in Configs
  /\ parsing = NotParsing
  /\ Fresh

\* slowRedact without the test of lines 220-222
slowRedactUnchecked ==
  /\ pc = "new"
  /\ pc' = "ready"
  /\ err' = "none"
  /\ UNCHANGED <<heap, cfg, input, snapshot, output, original, calls, trace,
                 restored, restoredTrees, mutations, serialized, results, parsing>>

\* slowRedact(options), lines 212-224
slowRedact ==
  /\ pc = "new"
  /\ IF ~cfg.pathsIsArray
     THEN pc' = "rejected" /\ err' = "TypeError"
     ELSE pc' = "ready" /\ err' = "none"
  /\ UNCHANGED <<heap, cfg, input, snapshot, output, original, calls, trace,
                 restored, restoredTrees, mutations, serialized, results, parsing>>

\* lines 225-256: the strict branch, or the full path
redactCall(c, in) ==
  IF IsPassthrough(c, in.root)
  THEN [full |-> FALSE, r |-> passthrough(in.heap, c, in.root)]
  ELSE [full |-> TRUE, r |-> redactFull(in.heap, c, in.root)]

\* what a call leaves for later comparison: the structure of its input, the
\* error it raised, the value it returned and that value's structure then
Outcome(in, e, h, val) ==
  [input |-> Tree(in.heap, in.root), err |-> e, val |-> val, tree |-> Tree(h, val)]

\* redact(in.root) on the heap in.heap, lines 224-256, of the redaction
\* function made with the options c
redactWith(c, in) ==
  \E call \in {redactCall(c, in)} :
    /\ input' = in.root
    /\ snapshot' = Tree(in.heap, in.root)
    /\ serialized' = call.r.ser
    /\ IF call.full
       THEN /\ pc' = IF call.r.st.err = "none" THEN "returned" ELSE "raised"
            /\ err' = call.r.st.err
            /\ output' = call.r.val
            /\ heap' = call.r.st.heap
            /\ original' = call.r.original
            /\ calls' = call.r.st.calls
            /\ trace' = call.r.steps
            /\ results' = Append(results, Outcome(in, call.r.st.err, call.r.st.heap, call.r.val))
       ELSE /\ pc' = IF call.r.err = "none" THEN "returned" ELSE "raised"
            /\ err' = call.r.err
            /\ output' = call.r.val
            /\ heap' = in.heap
            /\ original' = Undef
            /\ calls' = <<>>
            /\ trace' = <<>>
            /\ results' = Append(results, Outcome(in, call.r.err, in.heap, call.r.val))

redactOn(in) == redactWith(cfg, in)

\* redact(obj), lines 224-256, for an obj the caller built
redact ==
  /\ pc = "ready"
  /\ \E in \in InputsFor(cfg) : redactOn(in)
  /\ UNCHANGED <<cfg, restored, restoredTrees, mutations, parsing>>

\* the cells of a value the caller builds, placed after those of h
ShiftVal(v, off) == IF v.t = "ref" THEN Ref(v.a + off) ELSE v
Load(h, in) ==
  [heap |-> h \o [a \in 1..Len(in.heap) |->
                    [in.heap[a] EXCEPT !.vals = [i \in 1..Len(in.heap[a].vals) |->
                                                   ShiftVal(in.heap[a].vals[i], Len(h))]]],
   root |-> ShiftVal(in.root, Len(h))]

\* a later call that works on the working copy the call before it returned
redactAgainOnCopy ==
  /\ pc \in {"returned", "raised"}
  /\ Len(results) < MaxCalls
  /\ \E in \in CallInputs :
       IF pc = "returned" /\ cfg.serialize = "false" /\ output.t = "ref" /\ in.root.t = "ref"
       THEN \E ld \in {Load(heap, in)} :
              \E r \in {redactCloned(cfg, output, [heap |-> ld.heap, val |-> original])} :
                /\ input' = ld.root
                /\ snapshot' = Tree(ld.heap, ld.root)
                /\ serialized' = r.ser
                /\ pc' = IF r.st.err = "none" THEN "returned" ELSE "raised"
                /\ err' = r.st.err
                /\ output' = r.val
                /\ heap' = r.st.heap
                /\ original' = r.original
                /\ calls' = r.st.calls
                /\ trace' = r.steps
                /\ results' = Append(results, Outcome(ld, r.st.err, r.st.heap, r.val))
       ELSE redactOn(Load(heap, in))
  /\ UNCHANGED <<cfg, restored, restoredTrees, mutations, parsing>>

\* redact(obj) once more on the same redaction function, lines 224-256
redactAgain ==
  /\ pc \in {"returned", "raised"}
  /\ Len(results) < MaxCalls
  /\ \E in \in CallInputs : redactOn(Load(heap, in))
  /\ UNCHANGED <<cfg, restored, restoredTrees, mutations, parsing>>

\* restore() handing out the snapshot itself
restoreShared ==
  /\ pc = "returned"
  /\ cfg.serialize = "false"
  /\ output.t = "ref"
  /\ Len(restored) < MaxRestores
  /\ restored' = Append(restored, original)
  /\ restoredTrees' = Append(restoredTrees, Tree(heap, original))
  /\ UNCHANGED <<heap, cfg, input, snapshot, pc, output, original, err, calls, trace,
                 mutations, serialized, results, parsing>>

\* result.restore(), lines 245-247
restore ==
  /\ pc = "returned"
  /\ cfg.serialize = "false"
  /\ output.t = "ref"
  /\ Len(restored) < MaxRestores
  /\ \E c \in {deepClone(heap, original)} :
       /\ heap' = c.heap
       /\ restored' = Append(restored, c.val)
       /\ restoredTrees' = Append(restoredTrees, Tree(c.heap, c.val))
  /\ UNCHANGED <<cfg, input, snapshot, pc, output, original, err, calls, trace, mutations,
                 serialized, results, parsing>>

\* every key but restore of every cell in addrs is overwritten
Scribble(h, addrs) ==
  [a \in 1..Len(h) |->
     IF a \in addrs
     THEN [h[a] EXCEPT !.vals = [i \in 1..Len(h[a].vals) |->
                                   IF h[a].keys[i] = restoreKey THEN h[a].vals[i]
                                   ELSE Str("mutated")]]
     ELSE h[a]]

\* the caller writes into the input, the result or a restored value
mutate ==
  /\ pc = "returned"
  /\ cfg.serialize = "false"
  /\ Len(mutations) < MaxMutations
  /\ \E target \in {input, output} \cup {restored[i] : i \in 1..Len(restored)} :
       /\ target.t = "ref"
       /\ heap' = Scribble(heap, Reach(heap, target))
  /\ mutations' = Append(mutations, Len(restored))
  /\ UNCHANGED <<cfg, input, snapshot, pc, output, original, err, calls, trace,
                 restored, restoredTrees, serialized, results, parsing>>

Next == slowRedact \/ redact

Spec == Init /\ [][Next]_vars

\* the redaction functions that return the structure, and their callers
InitRestore == Init /\ cfg.serialize = "false" /\ Len(cfg.paths) <= MaxRestorePaths

NextRestore == slowRedact \/ redact \/ restore \/ mutate

SpecRestore == InitRestore /\ [][NextRestore]_vars

\* parsePath(path), lines 27-75, called on one string
parse ==
  /\ parsing.kind # "none"
  /\ Len(parsing.returned) < MaxParses
  /\ parsing' = [parsing EXCEPT !.returned = Append(@, parsePath(parsing.path))]
  /\ UNCHANGED <<heap, cfg, input, snapshot, pc, output, original, err, calls, trace,
                 restored, restoredTrees, mutations, serialized, results>>

InitParse ==
  /\ parsing \in ParseInputs
  /\ cfg = [paths |-> <<>>, pathsIsArray |-> TRUE, censorIsFn |-> FALSE,
            serialize |-> "default", strict |-> TRUE]
  /\ Fresh

NextParse == parse

SpecParse == InitParse /\ [][NextParse]_vars

\* deepClone(obj), lines 1-25, for an obj the caller built
clone ==
  /\ pc = "toClone"
  /\ \E c \in {deepClone(heap, input)} :
       /\ heap' = c.heap
       /\ output' = c.val
  /\ pc' = "cloned"
  /\ UNCHANGED <<cfg, input, snapshot, original, err, calls, trace, restored,
                 restoredTrees, mutations, serialized, results, parsing>>

\* the caller writes into the value it gave or into the clone it got
write ==
  /\ pc = "cloned"
  /\ \E target \in {"input", "clone"} :
       /\ (IF target = "input" THEN input ELSE output).t = "ref"
       /\ heap' = Scribble(heap, Reach(heap, IF target = "input" THEN input ELSE output))
       /\ mutations' = Append(mutations, target)
  /\ pc' = "written"
  /\ UNCHANGED <<cfg, input, snapshot, output, original, err, calls, trace, restored,
                 restoredTrees, serialized, results, parsing>>

InitClone ==
  /\ \E in \in CloneInputs :
       /\ heap = in.heap
       /\ input = in.root
       /\ snapshot = Tree(in.heap, in.root)
  /\ pc = "toClone"
  /\ cfg = [paths |-> <<>>, pathsIsArray |-> TRUE, censorIsFn |-> FALSE,
            serialize |-> "default", strict |-> TRUE]
  /\ parsing = NotParsing
  /\ output = Undef
  /\ original = Undef
  /\ err = "none"
  /\ calls = <<>>
  /\ trace = <<>>
  /\ restored = <<>>
  /\ restoredTrees = <<>>
  /\ mutations = <<>>
  /\ serialized = <<>>
  /\ results = <<>>

NextClone == clone \/ write

SpecClone == InitClone /\ [][NextClone]_vars

\* the orders in which the entries of a sequence can be given
Perms(seq) ==
  {[i \in 1..Len(seq) |-> seq[f[i]]] :
     f \in {g \in [1..Len(seq) -> 1..Len(seq)] :
              \A i \in 1..Len(seq) : \A j \in 1..Len(seq) : g[i] = g[j] => i = j}}

\* slowRedact(options)(obj), lines 212-256, with the same paths in some
\* order and the same obj as the call before
redactPermuted ==
  /\ pc \in {"returned", "raised"}
  /\ Len(results) < MaxOrders
  /\ \E perm \in Perms(cfg.paths) :
       /\ cfg' = [cfg EXCEPT !.paths = perm]
       /\ redactWith([cfg EXCEPT !.paths = perm], [heap |-> heap, root |-> input])
  /\ UNCHANGED <<restored, restoredTrees, mutations, parsing>>

\* the paths given in every order: plain ones, one naming an array's
\* length, and terminal and intermediate wildcards
OrderPaths ==
  { PathStr(<<"b">>),
    PathStr(<<"a", ".", "b">>),
    PathStr(<<"a", ".", "length">>),
    PathStr(<<"a", ".", "*">>),
    PathStr(<<"*">>),
    PathStr(<<"a", "[", "*", "]", ".", "b">>),
    PathStr(<<"*", ".", "b">>) }

\* redaction functions made with a literal censor and well-formed paths
InitOrder ==
  /\ Init
  /\ cfg.pathsIsArray
  /\ ~cfg.censorIsFn
  /\ cfg.strict
  /\ cfg.serialize \in {"false", "default"}
  /\ cfg.paths \in ValidSeqs
  /\ \A i \in 1..Len(cfg.paths) : cfg.paths[i] \in OrderPaths

NextOrder == slowRedact \/ redact \/ redactPermuted

SpecOrder == InitOrder /\ [][NextOrder]_vars

\* one redaction function called again and again
InitCalls == Init /\ cfg.pathsIsArray /\ Len(cfg.paths) <= MaxCallPaths

NextCalls == slowRedact \/ redact \/ redactAgain \/ restore

SpecCalls == InitCalls /\ [][NextCalls]_vars

----------------------------------------------------------------------------
(* Structures without identities: locations, and the parts of a path *)

IsNode(tr) == tr.t \in {"object", "array", "date"}

\* parts names an own key at every step from tr
RECURSIVE TreeHas(_, _)
TreeHas(tr, parts) ==
  \/ parts = <<>>
  \/ /\ IsNode(tr)
     /\ IndexOf(tr.keys, Head(parts)) > 0
     /\ TreeHas(tr.vals[IndexOf(tr.keys, Head(parts))], Tail(parts))

RECURSIVE TreeGet(_, _)
TreeGet(tr, parts) ==
  IF parts = <<>> THEN tr
  ELSE TreeGet(tr.vals[IndexOf(tr.keys, Head(parts))], Tail(parts))

\* tr with the value at parts replaced by new
RECURSIVE TreeSet(_, _, _)
TreeSet(tr, parts, new) ==
  IF parts = <<>> THEN new
  ELSE LET i == IndexOf(tr.keys, Head(parts))
       IN  [tr EXCEPT !.vals[i] = TreeSet(tr.vals[i], Tail(parts), new)]

PartsOf(i) == parseEntry(cfg.paths[i]).parts

IsPlain(parts) == IndexOf(parts, star) = 0
Stars(parts) == {j \in 1..Len(parts) : parts[j] = star}
IsTerminalWildcard(parts) == Stars(parts) = {Len(parts)} /\ parts # <<>>
IsIntermediateWildcard(parts) ==
  Cardinality(Stars(parts)) = 1 /\ Len(parts) \notin Stars(parts)

\* the paths of the call that were applied
Applied == DOMAIN trace

----------------------------------------------------------------------------
(* Claims *)

\* C1: after redact(input) returns or raises, the input has the structure it
\* had before the call, whatever the configuration.
C1_NonMutation ==
  pc \in {"returned", "raised"} => Tree(heap, input) = snapshot

\* a call on a container that returned after a path changed the working copy
C1_Witness ==
  /\ pc = "returned"
  /\ input.t = "ref"
  /\ \E i \in Applied : trace[i].before # trace[i].after

\* C2: with serialize disabled every restore() returns the pre-redaction
\* structure, in cells shared with neither the result, the input nor the
\* value of another restore(), whatever the caller wrote in between.
C2_RestoreRoundTrip ==
  \A k \in 1..Len(restored) :
    /\ restoredTrees[k] = snapshot
    /\ Reach(heap, restored[k]) \cap (Reach(heap, output) \cup Reach(heap, input)) = {}
    /\ \A j \in 1..Len(restored) :
         j # k => Reach(heap, restored[k]) \cap Reach(heap, restored[j]) = {}

\* a second restore() made after the caller wrote into the first restored
\* value, on a result that a path changed
C2_Witness ==
  /\ Len(restored) = 2
  /\ \E m \in 1..Len(mutations) : mutations[m] = 1
  /\ Tree(heap, restored[1]) # restoredTrees[1]
  /\ \E i \in Applied : trace[i].before # trace[i].after


\* new is what the configured censor puts in the place of old
IsCensorOf(new, old) ==
  IF cfg.censorIsFn THEN new.t = "censored" /\ new.arg = old ELSE new = literalCensor

\* the path grammar: a non-empty string without consecutive dots whose
\* brackets pair up
ConsecutiveDots(chars) ==
  \E j \in 1..(Len(chars) - 1) : chars[j] = "." /\ chars[j + 1] = "."

\* the bracket depth after chars[j..], from depth d; -1 once they mismatch
RECURSIVE BracketDepth(_, _, _)
BracketDepth(chars, j, d) ==
  IF j > Len(chars) THEN d
  ELSE IF chars[j] = "[" THEN (IF d = 0 THEN BracketDepth(chars, j + 1, 1) ELSE -1)
  ELSE IF chars[j] = "]" THEN (IF d = 1 THEN BracketDepth(chars, j + 1, 0) ELSE -1)
  ELSE BracketDepth(chars, j + 1, d)

InvalidEntry(p) ==
  \/ ~p.str
  \/ p.chars = <<>>
  \/ ConsecutiveDots(p.chars)
  \/ BracketDepth(p.chars, 1, 0) # 0

\* C3: the factory call fails whenever an entry of paths is no string, is
\* empty, has consecutive dots or has brackets that do not pair up.
C3_FactoryRejectsInvalidPaths ==
  (pc # "new" /\ \E i \in 1..Len(cfg.paths) : InvalidEntry(cfg.paths[i]))
    => pc = "rejected"

\* a plain path applied to a container input that names, at some step, no
\* own key of the working copy
MissesAt(i) ==
  /\ cfg.paths[i].str
  /\ PartsOf(i) # <<>>
  /\ IsPlain(PartsOf(i))
  /\ ~TreeHas(trace[i].before, PartsOf(i))

\* C4: a plain path that does not resolve in a container input raises no
\* error and leaves the working copy as it was: the output is the one
\* obtained without that path, no container is created and no key added.
C4_MissingPathIgnored ==
  input.t = "ref" =>
    \A i \in Applied :
      MissesAt(i) => trace[i].err = "none" /\ trace[i].after = trace[i].before

\* the segments before and after the wildcard of path i
PrefixOf(i) == SubSeq(PartsOf(i), 1, IndexOf(PartsOf(i), star) - 1)
SuffixOf(i) == SubSeq(PartsOf(i), IndexOf(PartsOf(i), star) + 1, Len(PartsOf(i)))

\* path i is applied to a working copy in which its prefix resolves to an
\* array or an object
WildcardContainer(i) ==
  /\ TreeHas(trace[i].before, PrefixOf(i))
  /\ TreeGet(trace[i].before, PrefixOf(i)).t \in {"object", "array"}

\* the children of that container: an array's elements, an object's own keys
ChildrenOf(c) == IF c.t = "array" THEN 1..c.len ELSE 1..Len(c.keys)

\* C5: every child of the container at an intermediate wildcard is handled
\* on its own: no error is raised, a child that is a primitive or null or
\* under which the suffix does not resolve is left as it was, and the
\* children under which it resolves are redacted.
C5_BranchesIndependent ==
  input.t = "ref" =>
    \A i \in Applied :
      (IsIntermediateWildcard(PartsOf(i)) /\ WildcardContainer(i)) =>
        LET c0 == TreeGet(trace[i].before, PrefixOf(i))
        IN  /\ trace[i].err = "none"
            /\ TreeHas(trace[i].after, PrefixOf(i))
            /\ \A k \in ChildrenOf(c0) :
                 LET old == c0.vals[k]
                     new == TreeGet(trace[i].after, PrefixOf(i)).vals[k]
                 IN  IF TreeHas(old, SuffixOf(i))
                     THEN /\ TreeHas(new, SuffixOf(i))
                          /\ IsCensorOf(TreeGet(new, SuffixOf(i)), TreeGet(old, SuffixOf(i)))
                     ELSE new = old

\* C6: under an intermediate wildcard whose prefix resolves to a container,
\* every child under which the suffix resolves to an existing key holds the
\* censor there in the output.
C6_WildcardComplete ==
  input.t = "ref" =>
    \A i \in Applied :
      (IsIntermediateWildcard(PartsOf(i)) /\ WildcardContainer(i)) =>
        \A k \in ChildrenOf(TreeGet(trace[i].before, PrefixOf(i))) :
          LET loc == PrefixOf(i) \o
                     <<TreeGet(trace[i].before, PrefixOf(i)).keys[k]>> \o SuffixOf(i)
          IN  TreeHas(trace[i].before, loc) =>
                /\ trace[i].err = "none"
                /\ TreeHas(trace[i].after, loc)
                /\ IsCensorOf(TreeGet(trace[i].after, loc), TreeGet(trace[i].before, loc))

RECURSIVE Locs(_)
Locs(tr) ==
  IF ~IsNode(tr) THEN {}
  ELSE UNION {{<<tr.keys[k]>>} \cup {<<tr.keys[k]>> \o l : l \in Locs(tr.vals[k])} :
              k \in 1..Len(tr.keys)}

\* the parsed path names loc, a wildcard standing for any key
Matches(parts, loc) ==
  /\ Len(parts) = Len(loc)
  /\ \A j \in 1..Len(parts) : parts[j] = star \/ parts[j] = loc[j]

\* a configured path addresses loc or a location above it
Addressed(loc) ==
  \E i \in 1..Len(cfg.paths) : \E n \in 1..Len(loc) :
    Matches(PartsOf(i), SubSeq(loc, 1, n))

\* a configured path addresses a location beneath loc
AddressedBelow(tr, loc) ==
  \E m \in Locs(tr) :
    /\ Len(m) > Len(loc)
    /\ SubSeq(m, 1, Len(loc)) = loc
    /\ Addressed(m)

SameShape(x, y) == x.t = y.t /\ (IsNode(x) => x.keys = y.keys /\ x.len = y.len)

\* C8: with serialize disabled the result differs from the input only
\* where a path says so: a location of the input that no path addresses or
\* lies beneath holds a value deep-equal to the input's (the same container
\* when a path addresses something inside it), and the result gains
\* nothing but restore.
C8_OnlyAddressedDiffer ==
  ( /\ pc = "returned"
    /\ cfg.serialize = "false"
    /\ input.t = "ref"
    /\ \A i \in 1..Len(cfg.paths) : ~InvalidEntry(cfg.paths[i]) ) =>
    /\ \A loc \in Locs(snapshot) :
         ~Addressed(loc) =>
           /\ TreeHas(Tree(heap, output), loc)
           /\ IF AddressedBelow(snapshot, loc)
              THEN SameShape(TreeGet(Tree(heap, output), loc), TreeGet(snapshot, loc))
              ELSE TreeGet(Tree(heap, output), loc) = TreeGet(snapshot, loc)
    /\ Locs(Tree(heap, output)) \ Locs(snapshot) \subseteq {<<restoreKey>>}

\* a plain path applied to a container input in which it resolves
ResolvesAt(i) ==
  /\ cfg.paths[i].str
  /\ PartsOf(i) # <<>>
  /\ IsPlain(PartsOf(i))
  /\ TreeHas(trace[i].before, PartsOf(i))

\* C9: for a plain path that resolves in a container input, a functional
\* censor is invoked exactly once, with the value found there and the
\* configured path string as it was written, and what it returns is what
\* the location holds afterwards (in the result itself for the last path).
C9_PlainCensorCall ==
  (input.t = "ref" /\ cfg.censorIsFn) =>
    \A i \in Applied :
      ResolvesAt(i) =>
        LET found == TreeGet(trace[i].before, PartsOf(i))
        IN  /\ trace[i].err = "none"
            /\ trace[i].calls = <<[value |-> found, path |-> cfg.paths[i]]>>
            /\ trace[i].after =
                 TreeSet(trace[i].before, PartsOf(i), CensorFn(found, cfg.paths[i]))
            /\ (i = Len(cfg.paths) /\ pc = "returned" /\ cfg.serialize = "false") =>
                 TreeGet(Tree(heap, output), PartsOf(i)) = CensorFn(found, cfg.paths[i])

\* a returned call whose last path, written with brackets, resolved
C9_Witness ==
  /\ pc = "returned"
  /\ input.t = "ref"
  /\ cfg.censorIsFn
  /\ cfg.serialize = "false"
  /\ Len(trace) = Len(cfg.paths)
  /\ ResolvesAt(Len(cfg.paths))
  /\ cfg.paths[Len(cfg.paths)].chars # JoinDot(PartsOf(Len(cfg.paths)))

\* the configured string of path i with its wildcard character replaced by key
ConcretePath(i, key) ==
  LET chars == cfg.paths[i].chars
      j == CHOOSE n \in 1..Len(chars) : chars[n] = "*"
  IN  SubSeq(chars, 1, j - 1) \o key \o SubSeq(chars, j + 1, Len(chars))

\* C10: for a wildcard path applied without error, a functional censor is
\* invoked once for each location matched, with the value there and the
\* configured string with its wildcard replaced by the key or index of the
\* match, and the location holds what that invocation returned.
C10_WildcardCensorCall ==
  (input.t = "ref" /\ cfg.censorIsFn) =>
    \A i \in Applied :
      ( /\ cfg.paths[i].str
        /\ Cardinality(Stars(PartsOf(i))) = 1
        /\ trace[i].err = "none"
        /\ WildcardContainer(i) ) =>
        \A k \in ChildrenOf(TreeGet(trace[i].before, PrefixOf(i))) :
          LET key == TreeGet(trace[i].before, PrefixOf(i)).keys[k]
              loc == PrefixOf(i) \o <<key>> \o SuffixOf(i)
          IN  TreeHas(trace[i].before, loc) =>
                LET call == [value |-> TreeGet(trace[i].before, loc),
                             path |-> PathStr(ConcretePath(i, key))]
                IN  /\ Cardinality({n \in DOMAIN trace[i].calls :
                                      trace[i].calls[n] = call}) = 1
                    /\ TreeHas(trace[i].after, loc)
                    /\ TreeGet(trace[i].after, loc) = CensorFn(call.value, call.path)

\* the serializer a configuration names: the function given, or the JSON
\* encoder by default and for serialize: true
ExpectedSerializer == IF cfg.serialize = "function" THEN "function" ELSE "JSON.stringify"

\* what the expected serializer returns for the value v of heap h
SerializerResult(h, v) ==
  IF cfg.serialize = "function" THEN customSerialize(h, v) ELSE stringify(h, v)

\* redact was called, strict, with null, undefined or a value that is no object
StrictPrimitiveCall ==
  pc \in {"returned", "raised"} /\ cfg.strict /\ input.t # "ref"

\* C11: with strict enabled and an input that is null, undefined or no
\* object, redact returns serialize(input), the input itself when serialize
\* is false; no path is applied, nothing is cloned and no censor function
\* is invoked, whatever the paths.
C11_StrictPassthrough ==
  StrictPrimitiveCall =>
    /\ pc = "returned"
    /\ output = IF cfg.serialize = "false" THEN input ELSE SerializerResult(heap, input)
    /\ trace = <<>>
    /\ calls = <<>>
    /\ heap = <<>>

\* the value the serializer is to be given: the working copy as the last
\* path left it, or the input under strict mode
ToSerialize ==
  IF input.t # "ref" THEN input
  ELSE IF trace = <<>> THEN snapshot
  ELSE trace[Len(trace)].after

\* C12: for a serialize setting other than false, a call whose paths raise
\* nothing returns the result of exactly one serializer call, of the
\* configured function or else of the JSON encoder, on the redacted working
\* copy of a container input or on a primitive input under strict mode, and
\* raises nothing.
C12_OneSerializerCall ==
  ( /\ pc \in {"returned", "raised"}
    /\ cfg.serialize # "false"
    /\ input.t = "ref" \/ cfg.strict
    /\ \A i \in Applied : trace[i].err = "none" ) =>
    /\ pc = "returned"
    /\ Len(serialized) = 1
    /\ serialized[1].fn = ExpectedSerializer
    /\ serialized[1].arg = ToSerialize
    /\ \E v \in {input} \cup {Ref(a) : a \in 1..Len(heap)} :
         /\ Tree(heap, v) = ToSerialize
         /\ output = SerializerResult(heap, v)

\* C13: the factory raises a TypeError when paths is no array, and returns
\* a redaction function, raising nothing, for the empty sequence and for
\* every sequence of well-formed path strings.
C13_FactoryAccepts ==
  pc # "new" =>
    /\ ~cfg.pathsIsArray => pc = "rejected" /\ err = "TypeError"
    /\ (cfg.pathsIsArray /\ \A i \in 1..Len(cfg.paths) : ~InvalidEntry(cfg.paths[i])) =>
         pc # "rejected" /\ (pc = "ready" => err = "none")

\* the factory returned for a quoted-bracket path beside a terminal wildcard
C13_Witness ==
  /\ pc = "ready"
  /\ Len(cfg.paths) = 2
  /\ cfg.paths[1].str
  /\ \E j \in 1..Len(cfg.paths[1].chars) : cfg.paths[1].chars[j] \in {"\"", "'"}
  /\ IsTerminalWildcard(PartsOf(2))

\* the locations of tr whose last key is k, with no location ending in k above
KeyedAtAnyLevel(tr, k) ==
  {loc \in Locs(tr) :
     /\ loc[Len(loc)] = k
     /\ \A n \in 1..(Len(loc) - 1) : loc[n] # k}

\* C14: a path *.k, applied without error, redacts k at any level: every
\* object at any depth of the working copy that has an own key k holds the
\* censor there afterwards.
C14_AnyLevel ==
  input.t = "ref" =>
    \A i \in Applied :
      ( /\ cfg.paths[i].str
        /\ Len(PartsOf(i)) = 2
        /\ PartsOf(i)[1] = star
        /\ PartsOf(i)[2] # star
        /\ trace[i].err = "none" ) =>
        \A loc \in KeyedAtAnyLevel(trace[i].before, PartsOf(i)[2]) :
          /\ TreeHas(trace[i].after, loc)
          /\ IsCensorOf(TreeGet(trace[i].after, loc), TreeGet(trace[i].before, loc))

\* C15: a redaction function keeps no state between its calls: two calls
\* given deep-equal inputs raise the same or return deep-equal results, and
\* no result and no restore() value of an earlier call is changed by a
\* later call.
C15_Stateless ==
  /\ \A j \in DOMAIN results : \A k \in DOMAIN results :
       results[j].input = results[k].input =>
         results[j].err = results[k].err /\ results[j].tree = results[k].tree
  /\ \A k \in DOMAIN results : Tree(heap, results[k].val) = results[k].tree
  /\ \A k \in DOMAIN restored : Tree(heap, restored[k]) = restoredTrees[k]

\* two calls with deep-equal container inputs, both redacting something,
\* with a restore() of the first made before the second
C15_Witness ==
  /\ Len(results) = 2
  /\ results[1].input = results[2].input
  /\ results[1].err = "none"
  /\ results[1].val.t = "ref"
  /\ results[1].val # results[2].val
  /\ \E i \in Applied : trace[i].before # trace[i].after
  /\ Len(restored) >= 1
  /\ input.t = "ref"
  /\ restored[1].a < input.a

\* every container of b that a still holds as a container has in a the
\* kind, the own keys and the length it has in b, and no value of b that is
\* no container is one in a
RECURSIVE SameKeys(_, _)
SameKeys(b, a) ==
  IF IsNode(b)
  THEN IsNode(a) =>
         /\ a.t = b.t
         /\ a.keys = b.keys
         /\ a.len = b.len
         /\ \A k \in 1..Len(b.vals) : SameKeys(b.vals[k], a.vals[k])
  ELSE ~IsNode(a)

\* C16: redaction only overwrites the values of keys that exist: every path
\* applied leaves each container of the working copy that it did not
\* replace with the own keys and the length it had, so that after all paths
\* the containers have the key sets of the input's; a last segment that is
\* no own key adds nothing and no key is deleted.
C16_OnlyOverwrites ==
  input.t = "ref" =>
    /\ \A i \in Applied : SameKeys(trace[i].before, trace[i].after)
    /\ trace # <<>> => SameKeys(snapshot, trace[Len(trace)].after)

\* C17: the paths are applied in the order given, each to what the one
\* before left, and a functional censor is called, for every location a
\* path matches, with the value the input held there before the call began,
\* also when an earlier path has replaced that location.
C17_OriginalValue ==
  ( /\ input.t = "ref"
    /\ cfg.censorIsFn
    /\ \A i \in 1..Len(cfg.paths) : ~InvalidEntry(cfg.paths[i]) ) =>
    \A i \in Applied :
      /\ trace[i].before = IF i = 1 THEN snapshot ELSE trace[i - 1].after
      /\ (ResolvesAt(i) /\ TreeHas(snapshot, PartsOf(i))) =>
           \E n \in DOMAIN trace[i].calls :
             trace[i].calls[n].value = TreeGet(snapshot, PartsOf(i))
      /\ ( /\ cfg.paths[i].str
           /\ Cardinality(Stars(PartsOf(i))) = 1
           /\ trace[i].err = "none"
           /\ WildcardContainer(i) ) =>
           \A k \in ChildrenOf(TreeGet(trace[i].before, PrefixOf(i))) :
             LET loc == PrefixOf(i) \o
                        <<TreeGet(trace[i].before, PrefixOf(i)).keys[k]>> \o SuffixOf(i)
             IN  (TreeHas(trace[i].before, loc) /\ TreeHas(snapshot, loc)) =>
                   \E n \in DOMAIN trace[i].calls :
                     trace[i].calls[n].value = TreeGet(snapshot, loc)

\* C18: a quoted bracketed segment ["k"] or ['k'] parses to the single
\* segment k, the text between the quotes, whatever characters but the
\* quote itself k is made of.
C18_QuotedKey ==
  parsing.kind = "quoted" =>
    \A r \in DOMAIN parsing.returned : parsing.returned[r] = parsing.keys

\* a segment sequence: every segment a non-empty string
IsParts(ps) == \A j \in DOMAIN ps : ps[j] # <<>>

\* C19: parsePath returns for every string a segment sequence, the same one
\* each time, and the dotted, bracketed and quoted notations are
\* interchangeable: a sequence of simple keys, indices and wildcards written
\* in any mix of them parses to that sequence, `*` alone being the wildcard
\* and `a*` a literal key.
C19_NotationsInterchangeable ==
  \A r \in DOMAIN parsing.returned :
    /\ parsing.returned[r] = parsing.returned[1]
    /\ IsParts(parsing.returned[r])
    /\ parsing.kind = "rendered" =>
         /\ parsing.returned[r] = parsing.keys
         /\ \A j \in DOMAIN parsing.keys :
              (parsing.returned[r][j] = star) <=> (parsing.keys[j] = <<"*">>)

\* a path of a literal key a* in quotes and a bracketed wildcard, parsed twice
C19_Witness ==
  /\ parsing.kind = "rendered"
  /\ Len(parsing.returned) = 2
  /\ parsing.keys = << <<"a", "*">>, <<"*">> >>
  /\ parsing.path = <<"[", "\"", "a", "*", "\"", "]", "[", "*", "]">>
  /\ IndexOf(parsing.returned[2], star) = 2

\* C20: deepClone(v) is deep-equal to v, null and primitives being returned
\* as they are, and no container of it is one reachable from v: a write
\* made afterwards into either structure leaves the other as it was.
C20_CloneIndependent ==
  pc \in {"cloned", "written"} =>
    /\ input.t # "ref" => output = input
    /\ Reach(heap, output) \cap Reach(heap, input) = {}
    /\ pc = "cloned" => Tree(heap, output) = snapshot /\ Tree(heap, input) = snapshot
    /\ (pc = "written" /\ mutations = <<"input">>) => Tree(heap, output) = snapshot
    /\ (pc = "written" /\ mutations = <<"clone">>) => Tree(heap, input) = snapshot

\* the clone of an object holding an array was written into
C20_Witness ==
  /\ pc = "written"
  /\ mutations = <<"clone">>
  /\ Tree(heap, output) # snapshot
  /\ input.t = "ref"
  /\ heap[input.a].kind = "object"
  /\ \E a \in Reach(heap, input) : heap[a].kind = "array" /\ heap[a].len = 2

\* the locations path i overwrote: those holding, after it, a censor result
\* they did not hold before
Overwritten(i) ==
  {loc \in Locs(trace[i].after) :
     /\ TreeGet(trace[i].after, loc).t = "censored"
     /\ TreeHas(trace[i].before, loc) =>
          TreeGet(trace[i].before, loc) # TreeGet(trace[i].after, loc)}

\* C21: a functional censor is invoked only for the locations replaced: a
\* path applied without error makes as many invocations as it overwrites
\* locations, none for a plain path that does not resolve and none for a
\* wildcard branch in which the suffix does not resolve.
C21_CallsOnlyWhenReplaced ==
  ( /\ input.t = "ref"
    /\ cfg.censorIsFn
    /\ \A i \in 1..Len(cfg.paths) : ~InvalidEntry(cfg.paths[i]) ) =>
    \A i \in Applied :
      trace[i].err = "none" =>
        /\ Len(trace[i].calls) = Cardinality(Overwritten(i))
        /\ MissesAt(i) => trace[i].calls = <<>>

\* the calls made so far were given one container and, each, the same
\* plain and single-wildcard paths in some order
SamePathsReordered ==
  /\ results # <<>>
  /\ input.t = "ref"
  /\ ~cfg.censorIsFn
  /\ \A i \in 1..Len(cfg.paths) :
       ~InvalidEntry(cfg.paths[i]) /\ Cardinality(Stars(PartsOf(i))) <= 1

\* C22: with a literal censor the outcome does not depend on the order of
\* the paths: when a call on a container input with plain and
\* single-wildcard paths returns, the calls with the same paths in any
\* other order return too, raising nothing, and return deep-equal outputs.
C22_OrderIndependent ==
  (SamePathsReordered /\ results[1].err = "none") =>
    \A j \in DOMAIN results :
      /\ results[j].err = "none"
      /\ results[j].tree = results[1].tree

====
